---- MODULE Spec2Model ----
(***************************************************************************)
(* Model of pycof.sql.remote_execute_sql (src/pycof/sql.py).               *)
(*                                                                         *)
(* A Python str is a sequence of one-character strings, so that upper(),   *)
(* lower(), replace(), split() and the `in` substring test are computed,   *)
(* not assumed.  A Python value that may be a str, a pandas.DataFrame or   *)
(* the default {} is a record tagged with its type.                        *)
(***************************************************************************)
EXTENDS Integers, Sequences, FiniteSets, TLC

\* ------------------------------------------------------------------ bounds
\* Longest SQL text, in fragments of SqlFragments.
MaxFrags == 2

\* Times the backend's data changes under the cache (SpecCache).
MaxVersion == 2

\* ------------------------------------------------------------- str methods
LowerAlphabet == <<"a", "b", "c", "d", "e", "f", "g", "h", "i", "j", "k", "l", "m",
                   "n", "o", "p", "q", "r", "s", "t", "u", "v", "w", "x", "y", "z">>
UpperAlphabet == <<"A", "B", "C", "D", "E", "F", "G", "H", "I", "J", "K", "L", "M",
                   "N", "O", "P", "Q", "R", "S", "T", "U", "V", "W", "X", "Y", "Z">>

UpperChar(c) ==
    IF \E i \in 1..Len(LowerAlphabet) : LowerAlphabet[i] = c
    THEN UpperAlphabet[CHOOSE i \in 1..Len(LowerAlphabet) : LowerAlphabet[i] = c]
    ELSE c

LowerChar(c) ==
    IF \E i \in 1..Len(UpperAlphabet) : UpperAlphabet[i] = c
    THEN LowerAlphabet[CHOOSE i \in 1..Len(UpperAlphabet) : UpperAlphabet[i] = c]
    ELSE c

\* str.upper()
Upper(s) == [i \in 1..Len(s) |-> UpperChar(s[i])]

\* str.lower()
Lower(s) == [i \in 1..Len(s) |-> LowerChar(s[i])]

\* str.replace('\n', ' ')
ReplaceNewlines(s) == [i \in 1..Len(s) |-> IF s[i] = "\n" THEN " " ELSE s[i]]

\* sub occurs in s at offset i (0-based)
OccursAt(sub, s, i) ==
    /\ i + Len(sub) <= Len(s)
    /\ \A k \in 1..Len(sub) : s[i + k] = sub[k]

\* the Python test `sub in s` on two str
Contains(s, sub) == \E i \in 0..Len(s) : OccursAt(sub, s, i)

\* offset of the leftmost occurrence of sub in s (which must contain it)
FirstOccurrence(s, sub) ==
    CHOOSE i \in 0..Len(s) :
        /\ OccursAt(sub, s, i)
        /\ \A j \in 0..(i - 1) : ~OccursAt(sub, s, j)

\* s.split(sep)[0]
SplitHead(s, sep) ==
    IF Contains(s, sep) THEN SubSeq(s, 1, FirstOccurrence(s, sep)) ELSE s

\* s.split(sep)[1], defined when sep occurs in s: what lies between the
\* first occurrence of sep and the next one
SplitSecond(s, sep) ==
    SplitHead(SubSeq(s, FirstOccurrence(s, sep) + Len(sep) + 1, Len(s)), sep)

\* ------------------------------------------------------------ Python values
Str(s) == [kind |-> "str", chars |-> s, rows |-> 0]
DataFrame(n) == [kind |-> "DataFrame", chars |-> <<>>, rows |-> n]
\* the default value {} of the parameter data
EmptyDict == [kind |-> "dict", chars |-> <<>>, rows |-> 0]
\* Python's None
None == [kind |-> "None", chars |-> <<>>, rows |-> 0]

IsDataFrame(v) == v.kind = "DataFrame"
IsStr(v) == v.kind = "str"

\* ------------------------------------------------------------ str literals
EmptyStr == <<>>
SELECT == <<"S", "E", "L", "E", "C", "T">>
INSERT == <<"I", "N", "S", "E", "R", "T">>
DELETE == <<"D", "E", "L", "E", "T", "E">>
COPY == <<"C", "O", "P", "Y">>
UNLOAD == <<"U", "N", "L", "O", "A", "D">>
UPDATE == <<"U", "P", "D", "A", "T", "E">>
CREATE == <<"C", "R", "E", "A", "T", "E">>
GRANT == <<"G", "R", "A", "N", "T">>
KW_UNLOAD == <<"U", "N", "L", "O", "A", "D", " ">>
KW_COPY == <<"C", "O", "P", "Y", " ">>
KW_UPDATE == <<"U", "P", "D", "A", "T", "E", " ">>
KW_FROM == <<"F", "R", "O", "M", " ">>
DOT_SQL == <<".", "s", "q", "l">>
SPACE == <<" ">>

all_query_types == {SELECT, INSERT, DELETE, COPY, UNLOAD, UPDATE, CREATE, GRANT}

\* the list of the third dispatch branch
passthrough_types == {CREATE, GRANT, DELETE, COPY, UNLOAD, UPDATE}

\* --------------------------------------------------------- the call's inputs
SqlFragments ==
    { KW_UNLOAD,
      <<"u", "n", "l", "o", "a", "d", " ">>,
      KW_COPY,
      <<"u", "p", "d", "a", "t", "e", " ">>,
      <<"S", "E", "L", "E", "C", "T", " ", "*", " ", "F", "R", "O", "M", " ">>,
      <<"D", "E", "L", "E", "T", "E", " ", "F", "R", "O", "M", " ">>,
      <<"O", "R", "D", "E", "R", "S">>,
      <<"q", ".", "s", "q", "l">> }

RECURSIVE TextsUpTo(_)
TextsUpTo(n) ==
    IF n = 0 THEN {EmptyStr}
    ELSE LET shorter == TextsUpTo(n - 1)
         IN  shorter \cup {t \o f : t \in shorter, f \in SqlFragments}

SqlTexts == TextsUpTo(MaxFrags)

\* a 3-row table and an empty one
DataFrames == {DataFrame(0), DataFrame(3)}

QueryTypes ==
    { EmptyStr, SELECT, <<"s", "e", "l", "e", "c", "t">>,
      INSERT, <<"i", "n", "s", "e", "r", "t">>,
      DELETE, COPY, UNLOAD, UPDATE, CREATE, GRANT,
      <<"M", "E", "R", "G", "E">> }

Tables ==
    { EmptyStr,
      <<"O", "R", "D", "E", "R", "S">>,
      <<"o", "r", "d", "e", "r", "s">>,
      <<"C", "U", "S", "T", "O", "M", "E", "R", "S">> }

\* what a file read by f_read may hold
FileTexts ==
    { EmptyStr,
      KW_UNLOAD \o <<"O", "R", "D", "E", "R", "S">>,
      <<"S", "E", "L", "E", "C", "T", " ", "*", " ", "F", "R", "O", "M", " ",
        "O", "R", "D", "E", "R", "S">> }

\* ------------------------------------------------ lines 99-122: the SQL type
\* no branch of the chain assigns sql_type: its else raises ValueError
Unresolved == EmptyStr

\* KeywordType with COPY tested before UNLOAD
KeywordTypeCopyFirst(text) ==
    IF Contains(Upper(text), KW_COPY) THEN COPY
    ELSE IF Contains(Upper(text), KW_UNLOAD) THEN UNLOAD
    ELSE IF Contains(Upper(text), KW_UPDATE) THEN UPDATE
    ELSE IF text # EmptyStr THEN SELECT
    ELSE Unresolved

\* KeywordType falling back to SELECT for the empty text too
KeywordTypeDefaultSelect(text) ==
    IF Contains(Upper(text), KW_UNLOAD) THEN UNLOAD
    ELSE IF Contains(Upper(text), KW_COPY) THEN COPY
    ELSE IF Contains(Upper(text), KW_UPDATE) THEN UPDATE
    ELSE SELECT

\* KeywordType with a branch that detects 'DELETE ' as well
KeywordTypeWithDelete(text) ==
    IF Contains(Upper(text), KW_UNLOAD) THEN UNLOAD
    ELSE IF Contains(Upper(text), KW_COPY) THEN COPY
    ELSE IF Contains(Upper(text), KW_UPDATE) THEN UPDATE
    ELSE IF Contains(Upper(text), <<"D", "E", "L", "E", "T", "E", " ">>) THEN DELETE
    ELSE IF text # EmptyStr THEN SELECT
    ELSE Unresolved

\* lines 109-122: the elif chain on the SQL text, for an empty query_type and
\* no DataFrame
KeywordType(text) ==
    IF Contains(Upper(text), KW_UNLOAD) THEN UNLOAD
    ELSE IF Contains(Upper(text), KW_COPY) THEN COPY
    ELSE IF Contains(Upper(text), KW_UPDATE) THEN UPDATE
    ELSE IF text # EmptyStr THEN SELECT
    ELSE Unresolved

\* SqlTypeOf with query_type consulted after the payload and the keywords
SqlTypeOfContentFirst(query_type, dataArg, sqlArg) ==
    IF IsDataFrame(dataArg) THEN INSERT
    ELSE IF IsDataFrame(sqlArg) THEN INSERT
    ELSE IF KeywordType(sqlArg.chars) \in {UNLOAD, COPY, UPDATE}
         THEN KeywordType(sqlArg.chars)
    ELSE IF query_type # EmptyStr THEN query_type
    ELSE KeywordType(sqlArg.chars)

\* lines 99-118
SqlTypeOf(query_type, dataArg, sqlArg) ==
    IF query_type # EmptyStr THEN query_type
    ELSE IF IsDataFrame(dataArg) THEN INSERT
    ELSE IF IsDataFrame(sqlArg) THEN INSERT
    ELSE KeywordType(sqlArg.chars)

\* line 108: data = sql_query, in the third branch only
DataOf(query_type, dataArg, sqlArg) ==
    IF query_type = EmptyStr /\ ~IsDataFrame(dataArg) /\ IsDataFrame(sqlArg)
    THEN sqlArg
    ELSE dataArg

\* ------------------------------------------- lines 127-131: the SQL file
\* line 127
ProcessesSqlQuery(sqlType) == sqlType # INSERT

\* line 128, on a str
IsSqlFilePath(text) == text # EmptyStr /\ Contains(Lower(text), DOT_SQL)

\* ------------------------------------------- lines 145-151: the table
\* line 145
ChecksSelectTable(sqlType) == sqlType = SELECT

\* line 147 can be evaluated: split('FROM ') has a second element
HasFrom(text) == Contains(ReplaceNewlines(Upper(text)), KW_FROM)

\* line 147
TableFromQuery(text) ==
    SplitHead(SplitSecond(ReplaceNewlines(Upper(text)), KW_FROM), SPACE)

\* line 151: the exception of a SELECT whose table is not in the query
SelectTableError == "SyntaxError"

\* line 179: the exception of a passthrough whose table is not in the query
PassthroughTableError == "ValueError"

\* lines 148 and 173
TableInQuery(tbl, text) == Contains(Upper(text), Upper(tbl))

\* ------------------------------------------- lines 155-181: the dispatch
\* DispatchBranch with the passthrough branch as the final else
DispatchBranchNoElse(sqlType) ==
    IF Upper(sqlType) = SELECT THEN "select"
    ELSE IF Upper(sqlType) = INSERT THEN "insert"
    ELSE "passthrough"

DispatchBranch(sqlType) ==
    IF Upper(sqlType) = SELECT THEN "select"
    ELSE IF Upper(sqlType) = INSERT THEN "insert"
    ELSE IF Upper(sqlType) \in passthrough_types THEN "passthrough"
    ELSE "unknown"

\* ------------------------------------------------------------------- state
VARIABLES
    pc,             \* position of the call in remote_execute_sql
    args,           \* the arguments as the caller passed them
    sql_type,       \* local sql_type
    sql_query,      \* local sql_query (a str or a DataFrame)
    data,           \* local data
    table,          \* local table
    credsResolved,  \* _get_credentials has returned
    tunnel,         \* "none", "open" or "closed": the SSHTunnel context
    tunnelOpens,    \* times the tunnel was entered in this call
    tunnelCloses,   \* times the tunnel was exited in this call
    conn,           \* "none", "open" or "closed": local conn
    connsOpened,    \* connectors obtained from tunnel.connector()
    connsClosed,    \* connectors closed
    executed,       \* statements sent to the backend, in order
    committed,      \* conn.commit() calls that returned
    inserted,       \* the value handed to _insert_data, None if none was
    fileRead,       \* f_read was called
    fileText,       \* what f_read returned
    tableChecked,   \* the block of lines 146-151 was entered
    branch,         \* the dispatch branch taken, "none" before
    cacheLookups,   \* calls of _cache
    result,         \* the returned value
    error,          \* the exception raised, "NoError" if none
    raisedAt,       \* position at which it was raised
    cacheStore,     \* the valid entries of the on-disk cache: query and data
    dbVersion       \* version of the backend's data

locals == <<sql_type, sql_query, data, table>>
tunnelVars == <<tunnel, tunnelOpens, tunnelCloses>>
connVars == <<conn, connsOpened, connsClosed>>
backendVars == <<executed, committed, inserted>>
fileVars == <<fileRead, fileText>>
outcome == <<result, error, raisedAt>>
envVars == <<cacheStore, dbVersion>>

vars == <<pc, args, locals, credsResolved, tunnelVars, connVars, backendVars,
          fileVars, tableChecked, branch, cacheLookups, outcome, envVars>>

\* what pd.read_sql returns for a query: the backend's data as they are now
ResultOf(text) == [kind |-> "ResultOf", chars |-> text, rows |-> dbVersion]

\* a cache entry: the SQL text its fingerprint is derived from, and the data
CacheEntry(text, stored) == [query |-> text, data |-> stored]

\* the cache holds a valid entry for the query
Cached(text) == \E e \in cacheStore : e.query = text

\* the data of that entry
CachedData(text) == (CHOOSE e \in cacheStore : e.query = text).data

\* the signature's default values (lines 28-29)
DefaultArgs ==
    [sql_query |-> Str(EmptyStr), query_type |-> EmptyStr, table |-> EmptyStr,
     data |-> EmptyDict, cache |-> FALSE]

NoCall ==
    /\ pc = "idle"
    /\ args = DefaultArgs
    /\ sql_type = Unresolved
    /\ sql_query = Str(EmptyStr)
    /\ data = EmptyDict
    /\ table = EmptyStr
    /\ credsResolved = FALSE
    /\ tunnel = "none" /\ tunnelOpens = 0 /\ tunnelCloses = 0
    /\ conn = "none" /\ connsOpened = 0 /\ connsClosed = 0
    /\ executed = <<>> /\ committed = 0 /\ inserted = None
    /\ fileRead = FALSE /\ fileText = EmptyStr
    /\ tableChecked = FALSE
    /\ branch = "none"
    /\ cacheLookups = 0
    /\ result = None /\ error = "NoError" /\ raisedAt = "nowhere"
    /\ cacheStore = {}
    /\ dbVersion = 0

Init == NoCall

\* an exception leaves the function: outside the with block
Raise(type) ==
    /\ error' = type
    /\ raisedAt' = pc
    /\ pc' = "done"
    /\ UNCHANGED result

\* an exception leaves the body of the with block: the context manager's
\* __exit__ runs before it propagates (line 139)
RaiseInTunnel(type) ==
    /\ error' = type
    /\ raisedAt' = pc
    /\ pc' = "tunnel_exit"
    /\ UNCHANGED result

\* ----------------------------------------------------------------- actions
\* lines 28-29: the caller's arguments are bound
Call ==
    /\ pc = "idle"
    /\ \E q \in {Str(t) : t \in SqlTexts} \cup DataFrames,
          qt \in QueryTypes,
          tb \in Tables,
          d \in {EmptyDict} \cup DataFrames,
          c \in BOOLEAN :
            /\ args' = [sql_query |-> q, query_type |-> qt, table |-> tb,
                        data |-> d, cache |-> c]
            /\ sql_query' = q
            /\ data' = d
            /\ table' = tb
    /\ pc' = "classify"
    /\ UNCHANGED <<sql_type, credsResolved, tunnelVars, connVars, backendVars,
                   fileVars, tableChecked, branch, cacheLookups, outcome,
                   envVars>>

\* lines 99-122
Classify ==
    /\ pc = "classify"
    /\ LET t == SqlTypeOf(args.query_type, data, sql_query)
       IN  IF t = Unresolved
           THEN /\ Raise("ValueError")
                /\ UNCHANGED <<sql_type, data>>
           ELSE /\ sql_type' = t
                /\ data' = DataOf(args.query_type, data, sql_query)
                /\ pc' = "process"
                /\ UNCHANGED outcome
    /\ UNCHANGED <<args, envVars, sql_query, table, credsResolved, tunnelVars, connVars,
                   backendVars, fileVars, tableChecked, branch, cacheLookups>>

\* lines 127-131
ProcessSqlQuery ==
    /\ pc = "process"
    /\ IF ~ProcessesSqlQuery(sql_type)
       THEN /\ pc' = "credentials"
            /\ UNCHANGED <<sql_query, fileVars, outcome>>
       ELSE IF ~IsStr(sql_query)
       THEN \* line 128: a DataFrame has no attribute lower
            /\ Raise("AttributeError")
            /\ UNCHANGED <<sql_query, fileVars>>
       ELSE IF ~IsSqlFilePath(sql_query.chars)
       THEN /\ pc' = "credentials"
            /\ UNCHANGED <<sql_query, fileVars, outcome>>
       ELSE \* line 130: f_read opens the path
            /\ fileRead' = TRUE
            /\ \/ /\ Raise("FileNotFoundError")
                  /\ UNCHANGED <<sql_query, fileText>>
               \/ \E content \in FileTexts :
                    /\ fileText' = content
                    /\ sql_query' = Str(content)
                    /\ IF content = EmptyStr
                       THEN Raise("AssertionError")
                       ELSE pc' = "credentials" /\ UNCHANGED outcome
    /\ UNCHANGED <<args, envVars, sql_type, data, table, credsResolved, tunnelVars,
                   connVars, backendVars, tableChecked, branch, cacheLookups>>

\* LoadCredentials whose failure is recorded but does not end the call
LoadCredentialsNotTerminal ==
    /\ pc = "credentials"
    /\ \/ /\ credsResolved' = TRUE
          /\ pc' = "tunnel_enter"
          /\ UNCHANGED outcome
       \/ /\ error' = "ConfigurationError"
          /\ raisedAt' = pc
          /\ pc' = "tunnel_enter"
          /\ UNCHANGED <<result, credsResolved>>
    /\ UNCHANGED <<args, envVars, locals, tunnelVars, connVars, backendVars, fileVars,
                   tableChecked, branch, cacheLookups>>

\* line 135: _get_credentials(_get_config(credentials), connection)
LoadCredentials ==
    /\ pc = "credentials"
    /\ \/ /\ credsResolved' = TRUE
          /\ pc' = "tunnel_enter"
          /\ UNCHANGED outcome
       \/ /\ Raise("ConfigurationError")
          /\ UNCHANGED credsResolved
    /\ UNCHANGED <<args, envVars, locals, tunnelVars, connVars, backendVars, fileVars,
                   tableChecked, branch, cacheLookups>>

\* line 139: with SSHTunnel(...) as tunnel, on entry
TunnelEnter ==
    /\ pc = "tunnel_enter"
    /\ \/ /\ tunnel' = "open"
          /\ tunnelOpens' = tunnelOpens + 1
          /\ pc' = "table"
          /\ UNCHANGED outcome
       \/ /\ Raise("ConnectionError")
          /\ UNCHANGED <<tunnel, tunnelOpens>>
    /\ UNCHANGED <<args, envVars, locals, credsResolved, tunnelCloses, connVars,
                   backendVars, fileVars, tableChecked, branch, cacheLookups>>

\* TunnelExit as a release written after the body, which a raise skips
TunnelExitOnSuccessOnly ==
    /\ pc = "tunnel_exit"
    /\ IF error = "NoError"
       THEN tunnel' = "closed" /\ tunnelCloses' = tunnelCloses + 1
       ELSE UNCHANGED <<tunnel, tunnelCloses>>
    /\ pc' = "done"
    /\ UNCHANGED <<args, envVars, locals, credsResolved, tunnelOpens, connVars,
                   backendVars, fileVars, tableChecked, branch, cacheLookups,
                   outcome>>

\* line 139: with SSHTunnel(...) as tunnel, on leaving the block by its end,
\* by return or by an exception
TunnelExit ==
    /\ pc = "tunnel_exit"
    /\ tunnel' = "closed"
    /\ tunnelCloses' = tunnelCloses + 1
    /\ pc' = "done"
    /\ UNCHANGED <<args, envVars, locals, credsResolved, tunnelOpens, connVars,
                   backendVars, fileVars, tableChecked, branch, cacheLookups,
                   outcome>>

\* the call has returned or raised; the caller goes on, and the entries of
\* the cache are not kept track of (they expire)
Return ==
    /\ pc = "done"
    /\ pc' = "idle"
    /\ args' = DefaultArgs
    /\ sql_type' = Unresolved
    /\ sql_query' = Str(EmptyStr)
    /\ data' = EmptyDict
    /\ table' = EmptyStr
    /\ credsResolved' = FALSE
    /\ tunnel' = "none" /\ tunnelOpens' = 0 /\ tunnelCloses' = 0
    /\ conn' = "none" /\ connsOpened' = 0 /\ connsClosed' = 0
    /\ executed' = <<>> /\ committed' = 0 /\ inserted' = None
    /\ fileRead' = FALSE /\ fileText' = EmptyStr
    /\ tableChecked' = FALSE
    /\ branch' = "none"
    /\ cacheLookups' = 0
    /\ result' = None /\ error' = "NoError" /\ raisedAt' = "nowhere"
    /\ cacheStore' = {}
    /\ UNCHANGED dbVersion

\* lines 145-151
SetDefaultTable ==
    /\ pc = "table"
    /\ IF ~ChecksSelectTable(sql_type)
       THEN /\ pc' = "dispatch"
            /\ UNCHANGED <<table, tableChecked, outcome>>
       ELSE /\ tableChecked' = TRUE
            /\ IF table = EmptyStr
               THEN IF HasFrom(sql_query.chars)
                    THEN /\ table' = TableFromQuery(sql_query.chars)
                         /\ pc' = "dispatch"
                         /\ UNCHANGED outcome
                    ELSE \* line 147: split('FROM ')[1] is out of range
                         /\ RaiseInTunnel("IndexError")
                         /\ UNCHANGED table
               ELSE IF TableInQuery(table, sql_query.chars)
                    THEN /\ pc' = "dispatch"
                         /\ UNCHANGED <<table, outcome>>
                    ELSE /\ RaiseInTunnel(SelectTableError)
                         /\ UNCHANGED table
    /\ UNCHANGED <<args, envVars, sql_type, sql_query, data, credsResolved, tunnelVars,
                   connVars, backendVars, fileVars, branch, cacheLookups>>

\* tunnel.connector() returns a connector, or raises
Connect(next) ==
    \/ /\ conn' = "open"
       /\ connsOpened' = connsOpened + 1
       /\ pc' = next
       /\ UNCHANGED <<connsClosed, outcome>>
    \/ /\ RaiseInTunnel("ConnectionError")
       /\ UNCHANGED connVars

\* lines 155-157 and 163: SELECT through _cache, which returns the data of
\* a valid entry, or else runs the query on a connector of the tunnel and
\* stores the result
SelectCached ==
    /\ pc = "dispatch"
    /\ DispatchBranch(sql_type) = "select"
    /\ args.cache
    /\ branch' = "select"
    /\ cacheLookups' = cacheLookups + 1
    /\ IF Cached(sql_query.chars)
       THEN /\ result' = CachedData(sql_query.chars)
            /\ pc' = "tunnel_exit"
            /\ UNCHANGED <<connVars, executed, error, raisedAt, cacheStore>>
       ELSE \/ \* miss or expiry, and the query succeeds
               /\ connsOpened' = connsOpened + 1
               /\ connsClosed' = connsClosed + 1
               /\ executed' = Append(executed, sql_query.chars)
               /\ result' = ResultOf(sql_query.chars)
               /\ cacheStore' = cacheStore \cup
                     {CacheEntry(sql_query.chars, ResultOf(sql_query.chars))}
               /\ pc' = "tunnel_exit"
               /\ UNCHANGED <<conn, error, raisedAt>>
            \/ \* miss or expiry, and the query raises
               /\ connsOpened' = connsOpened + 1
               /\ connsClosed' \in {connsClosed, connsClosed + 1}
               /\ executed' = Append(executed, sql_query.chars)
               /\ RaiseInTunnel("BackendError")
               /\ UNCHANGED <<conn, cacheStore>>
    /\ UNCHANGED <<args, dbVersion, locals, credsResolved, tunnelVars,
                   committed, inserted, fileVars, tableChecked>>

\* another process that shares the cache directory stores the entry of the
\* query this call is about to look up
OtherWriter ==
    /\ pc = "dispatch"
    /\ DispatchBranch(sql_type) = "select"
    /\ args.cache
    /\ ~Cached(sql_query.chars)
    /\ cacheStore' = cacheStore \cup
          {CacheEntry(sql_query.chars, ResultOf(sql_query.chars))}
    /\ UNCHANGED <<pc, args, dbVersion, locals, credsResolved, tunnelVars,
                   connVars, backendVars, fileVars, tableChecked, branch,
                   cacheLookups, outcome>>

\* SelectConnect without the test of cache (line 156)
SelectConnectAlways ==
    /\ pc = "dispatch"
    /\ DispatchBranch(sql_type) = "select"
    /\ branch' = "select"
    /\ Connect("read_sql")
    /\ UNCHANGED <<args, envVars, locals, credsResolved, tunnelVars, backendVars,
                   fileVars, tableChecked, cacheLookups>>

\* lines 155-159: SELECT without cache, up to the connector
SelectConnect ==
    /\ pc = "dispatch"
    /\ DispatchBranch(sql_type) = "select"
    /\ ~args.cache
    /\ branch' = "select"
    /\ Connect("read_sql")
    /\ UNCHANGED <<args, envVars, locals, credsResolved, tunnelVars, backendVars,
                   fileVars, tableChecked, cacheLookups>>

\* lines 160-163
ReadSql ==
    /\ pc = "read_sql"
    /\ executed' = Append(executed, sql_query.chars)
    /\ \/ /\ conn' = "closed"
          /\ connsClosed' = connsClosed + 1
          /\ result' = ResultOf(sql_query.chars)
          /\ pc' = "tunnel_exit"
          /\ UNCHANGED <<connsOpened, error, raisedAt>>
       \/ \* pd.read_sql raises: line 162 is not reached
          /\ RaiseInTunnel("BackendError")
          /\ UNCHANGED connVars
    /\ UNCHANGED <<args, envVars, locals, credsResolved, tunnelVars, committed, inserted,
                   fileVars, tableChecked, branch, cacheLookups>>

\* lines 166-167
InsertConnect ==
    /\ pc = "dispatch"
    /\ DispatchBranch(sql_type) = "insert"
    /\ branch' = "insert"
    /\ Connect("insert_data")
    /\ UNCHANGED <<args, envVars, locals, credsResolved, tunnelVars, backendVars,
                   fileVars, tableChecked, cacheLookups>>

\* line 168: _insert_data(data=data, ...); its return value is dropped
InsertData ==
    /\ pc = "insert_data"
    /\ inserted' = data
    /\ \/ /\ pc' = "close"
          /\ UNCHANGED outcome
       \/ RaiseInTunnel(IF IsDataFrame(data) THEN "BackendError" ELSE "TypeError")
    /\ UNCHANGED <<args, envVars, locals, credsResolved, tunnelVars, connVars, executed,
                   committed, fileVars, tableChecked, branch, cacheLookups>>

\* lines 172-175 and 178-179
PassthroughConnect ==
    /\ pc = "dispatch"
    /\ DispatchBranch(sql_type) = "passthrough"
    /\ branch' = "passthrough"
    /\ IF TableInQuery(table, sql_query.chars)
       THEN Connect("execute")
       ELSE /\ RaiseInTunnel(PassthroughTableError)
            /\ UNCHANGED connVars
    /\ UNCHANGED <<args, envVars, locals, credsResolved, tunnelVars, backendVars,
                   fileVars, tableChecked, cacheLookups>>

\* CursorExecute whose exception is recorded while the body goes on to commit
CursorExecuteThenCommit ==
    /\ pc = "execute"
    /\ executed' = Append(executed, sql_query.chars)
    /\ \/ /\ pc' = "commit"
          /\ UNCHANGED outcome
       \/ /\ error' = "BackendError"
          /\ raisedAt' = pc
          /\ pc' = "commit"
          /\ UNCHANGED result
    /\ UNCHANGED <<args, envVars, locals, credsResolved, tunnelVars, connVars, committed,
                   inserted, fileVars, tableChecked, branch, cacheLookups>>

\* line 176
CursorExecute ==
    /\ pc = "execute"
    /\ executed' = Append(executed, sql_query.chars)
    /\ \/ /\ pc' = "commit"
          /\ UNCHANGED outcome
       \/ RaiseInTunnel("BackendError")
    /\ UNCHANGED <<args, envVars, locals, credsResolved, tunnelVars, connVars, committed,
                   inserted, fileVars, tableChecked, branch, cacheLookups>>

\* line 177
Commit ==
    /\ pc = "commit"
    /\ \/ /\ committed' = committed + 1
          /\ pc' = "close"
          /\ UNCHANGED outcome
       \/ /\ RaiseInTunnel("BackendError")
          /\ UNCHANGED committed
    /\ UNCHANGED <<args, envVars, locals, credsResolved, tunnelVars, connVars, executed,
                   inserted, fileVars, tableChecked, branch, cacheLookups>>

\* lines 180-181
DispatchUnknown ==
    /\ pc = "dispatch"
    /\ DispatchBranch(sql_type) = "unknown"
    /\ branch' = "unknown"
    /\ RaiseInTunnel("ValueError")
    /\ UNCHANGED <<args, envVars, locals, credsResolved, tunnelVars, connVars,
                   backendVars, fileVars, tableChecked, cacheLookups>>

\* line 184
CloseConnection ==
    /\ pc = "close"
    /\ conn' = "closed"
    /\ connsClosed' = connsClosed + 1
    /\ pc' = "tunnel_exit"
    /\ UNCHANGED <<args, envVars, locals, credsResolved, tunnelVars, connsOpened,
                   backendVars, fileVars, tableChecked, branch, cacheLookups,
                   outcome>>

Next ==
    \/ Call
    \/ Classify
    \/ ProcessSqlQuery
    \/ LoadCredentials
    \/ TunnelEnter
    \/ SetDefaultTable
    \/ SelectCached
    \/ OtherWriter
    \/ SelectConnect
    \/ ReadSql
    \/ InsertConnect
    \/ InsertData
    \/ PassthroughConnect
    \/ CursorExecute
    \/ Commit
    \/ DispatchUnknown
    \/ CloseConnection
    \/ TunnelExit
    \/ Return

Spec == Init /\ [][Next]_vars

\* ------------------------------------------- the cache across several calls
\* the queries of the calls that follow one another
CachedQueries ==
    { <<"S", "E", "L", "E", "C", "T", " ", "*", " ", "F", "R", "O", "M", " ",
        "O", "R", "D", "E", "R", "S">>,
      <<"D", "E", "L", "E", "T", "E", " ", "F", "R", "O", "M", " ",
        "O", "R", "D", "E", "R", "S">> }

\* lines 28-29: a call with a query, with or without cache
CallSelect ==
    /\ pc = "idle"
    /\ \E q \in {Str(t) : t \in CachedQueries},
          qt \in {EmptyStr, SELECT},
          tb \in {EmptyStr, <<"O", "R", "D", "E", "R", "S">>},
          c \in BOOLEAN :
            /\ args' = [sql_query |-> q, query_type |-> qt, table |-> tb,
                        data |-> EmptyDict, cache |-> c]
            /\ sql_query' = q
            /\ data' = EmptyDict
            /\ table' = tb
    /\ pc' = "classify"
    /\ UNCHANGED <<sql_type, credsResolved, tunnelVars, connVars, backendVars,
                   fileVars, tableChecked, branch, cacheLookups, outcome,
                   envVars>>

\* the call has returned or raised; the caller goes on, the cache stays
ReturnKeepCache ==
    /\ pc = "done"
    /\ pc' = "idle"
    /\ args' = DefaultArgs
    /\ sql_type' = Unresolved
    /\ sql_query' = Str(EmptyStr)
    /\ data' = EmptyDict
    /\ table' = EmptyStr
    /\ credsResolved' = FALSE
    /\ tunnel' = "none" /\ tunnelOpens' = 0 /\ tunnelCloses' = 0
    /\ conn' = "none" /\ connsOpened' = 0 /\ connsClosed' = 0
    /\ executed' = <<>> /\ committed' = 0 /\ inserted' = None
    /\ fileRead' = FALSE /\ fileText' = EmptyStr
    /\ tableChecked' = FALSE
    /\ branch' = "none"
    /\ cacheLookups' = 0
    /\ result' = None /\ error' = "NoError" /\ raisedAt' = "nowhere"
    /\ UNCHANGED envVars

\* the TTL of an entry runs out
CacheExpire ==
    /\ \E e \in cacheStore : cacheStore' = cacheStore \ {e}
    /\ UNCHANGED <<pc, args, dbVersion, locals, credsResolved, tunnelVars,
                   connVars, backendVars, fileVars, tableChecked, branch,
                   cacheLookups, outcome>>

\* another client changes the backend's data
BackendChanges ==
    /\ dbVersion < MaxVersion
    /\ dbVersion' = dbVersion + 1
    /\ UNCHANGED <<pc, args, cacheStore, locals, credsResolved, tunnelVars,
                   connVars, backendVars, fileVars, tableChecked, branch,
                   cacheLookups, outcome>>

NextCache ==
    \/ CallSelect
    \/ Classify
    \/ ProcessSqlQuery
    \/ LoadCredentials
    \/ TunnelEnter
    \/ SetDefaultTable
    \/ SelectCached
    \/ SelectConnect
    \/ ReadSql
    \/ TunnelExit
    \/ ReturnKeepCache
    \/ CacheExpire
    \/ BackendChanges

SpecCache == Init /\ [][NextCache]_vars

\* ------------------------------------------------------------ properties
\* the call is inside the body of the with block
InTunnelBody ==
    pc \in {"table", "dispatch", "read_sql", "insert_data", "execute", "commit",
            "close", "tunnel_exit"}

\* the chain of lines 99-122 has run and assigned a kind
Classified == pc \notin {"idle", "classify"} /\ raisedAt # "classify"

\* C1: a call that acquires the tunnel releases it exactly once before it
\* returns or re-raises, on every exit path: the tunnel is never released
\* more often than acquired, is open only inside the with block, and a
\* finished call that entered it has released it once.
C1_TunnelReleasedExactlyOnce ==
    /\ tunnelOpens \in {0, 1}
    /\ tunnelCloses <= tunnelOpens
    /\ (tunnel = "open") = InTunnelBody
    /\ pc = "done" =>
          /\ tunnelCloses = tunnelOpens
          /\ tunnelOpens = 1 => tunnel = "closed"
          /\ tunnelOpens = 0 => tunnel = "none"

\* C1 witness: a commit that raised, and the tunnel released once
C1_Witness ==
    /\ pc = "done"
    /\ error = "BackendError"
    /\ raisedAt = "commit"
    /\ tunnelOpens = 1
    /\ tunnelCloses = 1

\* the errors of classification: no kind could be determined (line 122), the
\* declared table is not in the SQL text (lines 151 and 179), the kind is
\* outside the closed set (line 181)
ClassificationErrorRaised ==
    \/ error = "ValueError"
    \/ error = SelectTableError

\* C2: every classification error is raised before the credentials are
\* resolved and before the tunnel is acquired.
C2_ClassificationErrorsBeforeTunnel ==
    ClassificationErrorRaised => (~credsResolved /\ tunnelOpens = 0)

\* C3: a non-empty query_type is the kind assigned, whatever the SQL text
\* and the dataset are; classification never fails then; and a call with
\* query_type = "INSERT" that reaches the dispatch takes the Insert branch.
C3_ExplicitQueryTypeWins ==
    args.query_type # EmptyStr =>
        /\ raisedAt # "classify"
        /\ pc \notin {"idle", "classify"} => sql_type = args.query_type
        /\ (args.query_type = INSERT /\ branch # "none") => branch = "insert"
        /\ (args.query_type = INSERT /\ pc = "done" /\ tunnelOpens = 1)
              => branch = "insert"

\* C3 witness: query_type = "INSERT" with the default data and an SQL text
\* that holds UNLOAD, dispatched as Insert
C3_Witness ==
    /\ args.query_type = INSERT
    /\ args.data = EmptyDict
    /\ IsStr(args.sql_query)
    /\ Contains(args.sql_query.chars, KW_UNLOAD)
    /\ sql_type = INSERT
    /\ branch = "insert"

\* C4: an explicit query_type is matched without regard to letter case: the
\* call goes through the SQL-file pre-processing and through the table
\* validation exactly when the call with the upper-cased query_type does.
C4_QueryTypeCaseInsensitive ==
    args.query_type # EmptyStr =>
        /\ (fileRead \/ raisedAt = "process")
              => ProcessesSqlQuery(Upper(args.query_type))
        /\ branch # "none"
              => tableChecked = ChecksSelectTable(Upper(args.query_type))

\* kw occurs in text, letter case ignored
HasKeyword(text, kw) == Contains(Lower(text), Lower(kw))

\* C5: with an empty query_type the first match wins: a DataFrame payload
\* (as data, else as sql_query) gives INSERT; otherwise 'UNLOAD ', 'COPY ',
\* 'UPDATE ' are looked up in this order, letter case ignored, and any other
\* non-empty text gives SELECT.
C5_ClassificationPrecedence ==
    (args.query_type = EmptyStr /\ Classified) =>
        /\ IsDataFrame(args.data) => (sql_type = INSERT /\ data = args.data)
        /\ (~IsDataFrame(args.data) /\ IsDataFrame(args.sql_query))
              => (sql_type = INSERT /\ data = args.sql_query)
        /\ (~IsDataFrame(args.data) /\ IsStr(args.sql_query)) =>
              LET t == args.sql_query.chars
                  unload == HasKeyword(t, KW_UNLOAD)
                  copy == HasKeyword(t, KW_COPY)
                  update == HasKeyword(t, KW_UPDATE)
              IN  /\ unload => sql_type = UNLOAD
                  /\ (~unload /\ copy) => sql_type = COPY
                  /\ (~unload /\ ~copy /\ update) => sql_type = UPDATE
                  /\ (~unload /\ ~copy /\ ~update)
                        => (sql_type = SELECT /\ t # EmptyStr)

\* C5 witness: a text with 'COPY ' and, in lower case, 'unload ' is UNLOAD
C5_Witness ==
    /\ args.query_type = EmptyStr
    /\ Classified
    /\ args.data = EmptyDict
    /\ IsStr(args.sql_query)
    /\ Contains(args.sql_query.chars, KW_COPY)
    /\ Contains(args.sql_query.chars, Lower(KW_UNLOAD))
    /\ ~Contains(args.sql_query.chars, KW_UNLOAD)
    /\ sql_type = UNLOAD

\* the call has acted on the backend, the cache or the inserter
Proceeded ==
    \/ branch \in {"select", "insert", "passthrough"}
    \/ connsOpened > 0
    \/ cacheLookups > 0
    \/ executed # <<>>
    \/ inserted # None

\* C6: classification is total: past the chain a kind is assigned or an
\* error was raised; a call proceeds or succeeds only with a kind of the
\* closed set (letter case ignored); and with an empty query_type, an empty
\* SQL text and no dataset the call raises ValueError at once, with no
\* credentials resolved and no tunnel opened.
C6_ClassificationTotal ==
    /\ Classified => sql_type # Unresolved
    /\ Proceeded => Upper(sql_type) \in all_query_types
    /\ (pc = "done" /\ error = "NoError") => Upper(sql_type) \in all_query_types
    /\ ( /\ pc \notin {"idle", "classify"}
         /\ args.query_type = EmptyStr
         /\ args.sql_query = Str(EmptyStr)
         /\ args.data = EmptyDict )
       => /\ pc = "done"
          /\ error = "ValueError"
          /\ raisedAt = "classify"
          /\ sql_type = Unresolved
          /\ ~credsResolved
          /\ tunnelOpens = 0

\* C6 witness: the call with nothing to classify has raised
C6_Witness ==
    /\ pc = "done"
    /\ args.query_type = EmptyStr
    /\ args.sql_query = Str(EmptyStr)
    /\ args.data = EmptyDict
    /\ error = "ValueError"
    /\ raisedAt = "classify"

\* C7: a Select call with an explicit table that does not appear in the SQL
\* text (here even with letter case ignored) never sends the query to the
\* backend nor looks it up in the cache, and, once in the with block, fails
\* with the table-mismatch error.
C7_SelectTableMustAppear ==
    ( /\ Classified
      /\ DispatchBranch(sql_type) = "select"
      /\ args.table # EmptyStr
      /\ IsStr(sql_query)
      /\ ~TableInQuery(args.table, sql_query.chars) )
    => /\ executed = <<>>
       /\ cacheLookups = 0
       /\ (pc = "done" /\ tunnelOpens = 1) => error = SelectTableError

\* C8: a passthrough call whose table does not appear in the SQL text fails,
\* once in the with block, with the error kind of the Select table mismatch,
\* and opens no connector, executes nothing and commits nothing.
C8_PassthroughTableMustAppear ==
    ( /\ Classified
      /\ DispatchBranch(sql_type) = "passthrough"
      /\ IsStr(sql_query)
      /\ ~TableInQuery(args.table, sql_query.chars)
      /\ pc = "done"
      /\ tunnelOpens = 1 )
    => /\ error = SelectTableError
       /\ connsOpened = 0
       /\ executed = <<>>
       /\ committed = 0

\* a Python int
IntValue(n) == [kind |-> "int", chars |-> <<>>, rows |-> n]

\* C9: with the dataset as first argument, query_type = "INSERT" and a table,
\* the inserter is handed exactly that dataset and the call returns its row
\* count.
C9_InsertFirstArgument ==
    ( /\ args.query_type = INSERT
      /\ IsDataFrame(args.sql_query)
      /\ args.data = EmptyDict
      /\ args.table # EmptyStr )
    => /\ inserted # None => inserted = args.sql_query
       /\ (pc = "done" /\ error = "NoError")
             => result = IntValue(args.sql_query.rows)

\* s ends with suffix
EndsWith(s, suffix) ==
    /\ Len(s) >= Len(suffix)
    /\ SubSeq(s, Len(s) - Len(suffix) + 1, Len(s)) = suffix

\* C10: the SQL source is read as a file only when it ends in '.sql', and
\* the kind of such a call is the one of the file's text.
C10_SqlFileOnlyForSqlPath ==
    /\ fileRead => EndsWith(args.sql_query.chars, DOT_SQL)
    /\ ( /\ fileRead
         /\ fileText # EmptyStr
         /\ args.query_type = EmptyStr
         /\ ~IsDataFrame(args.data) )
       => sql_type = KeywordType(fileText)

\* a Select call with caching enabled leaves the dispatch
CachedSelectStep ==
    /\ pc = "dispatch"
    /\ pc' # "dispatch"
    /\ DispatchBranch(sql_type) = "select"
    /\ args.cache

\* the step of a Select call with caching enabled: with a valid entry for
\* its SQL text it returns the entry's data and opens no connector and
\* executes nothing; without one, if it succeeds, it has executed the query
\* once and stored what it returns
CacheRoundTripStep ==
    CachedSelectStep =>
        IF Cached(sql_query.chars)
        THEN /\ pc' = "tunnel_exit"
             /\ error' = "NoError"
             /\ result' = CachedData(sql_query.chars)
             /\ connsOpened' = connsOpened
             /\ executed' = executed
             /\ cacheStore' = cacheStore
        ELSE error' = "NoError" =>
                /\ executed' = <<sql_query.chars>>
                /\ CacheEntry(sql_query.chars, result') \in cacheStore'

\* a Select call with caching disabled never looks the cache up, executes
\* the query at most once, and exactly once when it succeeds
UncachedSelectExecutesOnce ==
    (pc # "idle" /\ DispatchBranch(sql_type) = "select" /\ ~args.cache) =>
        /\ cacheLookups = 0
        /\ Len(executed) <= 1
        /\ (pc = "done" /\ error = "NoError") =>
              /\ executed = <<sql_query.chars>>
              /\ connsOpened = 1

C12_UnknownKindFails ==
    (Classified /\ Upper(sql_type) \notin all_query_types) =>
        /\ connsOpened = 0
        /\ executed = <<>>
        /\ inserted = None
        /\ committed = 0
        /\ cacheLookups = 0
        /\ branch \in {"none", "unknown"}
        /\ branch = "unknown" =>
              /\ error = "ValueError"
              /\ raisedAt = "dispatch"
              /\ pc \in {"tunnel_exit", "done"}
        /\ (pc = "done" /\ tunnelOpens = 1) => branch = "unknown"

\* C12 witness: query_type = "MERGE" has failed at the dispatch
C12_Witness ==
    /\ pc = "done"
    /\ args.query_type = <<"M", "E", "R", "G", "E">>
    /\ branch = "unknown"
    /\ error = "ValueError"
    /\ raisedAt = "dispatch"
    /\ connsOpened = 0

\* the backend or the cache has been used in this call
BackendTouched ==
    \/ connsOpened > 0
    \/ executed # <<>>
    \/ inserted # None
    \/ committed > 0
    \/ cacheLookups > 0

\* C13: the phases of a call are ordered: credentials are resolved only
\* after the classification has assigned a kind, the tunnel is acquired
\* only after the credentials are resolved, the backend is used only after
\* the tunnel was acquired, and a failure of the credential resolution ends
\* the call with no tunnel opened and nothing executed.
C13_PhaseOrder ==
    /\ pc \in {"credentials", "tunnel_enter"} =>
          Classified /\ sql_type # Unresolved /\ tunnelOpens = 0
    /\ pc = "credentials" => ~credsResolved
    /\ credsResolved => Classified /\ sql_type # Unresolved
    /\ tunnelOpens > 0 => credsResolved
    /\ tunnelCloses > 0 => tunnelOpens > 0
    /\ BackendTouched => tunnelOpens = 1
    /\ raisedAt = "credentials" =>
          /\ error = "ConfigurationError"
          /\ pc = "done"
          /\ ~credsResolved
          /\ tunnelOpens = 0
          /\ tunnel # "open"
          /\ ~BackendTouched

\* C13 witness: a classified call has ended at the credential resolution
C13_Witness ==
    /\ pc = "done"
    /\ sql_type # Unresolved
    /\ error = "ConfigurationError"
    /\ raisedAt = "credentials"
    /\ tunnelOpens = 0

\* C14: no connector is leaked: when a call that did not go through the
\* cache returns or raises, every connector it obtained from
\* tunnel.connector() has been closed.
C14_NoConnectorLeak ==
    (pc = "done" /\ cacheLookups = 0) =>
        /\ connsOpened = connsClosed
        /\ conn # "open"

\* C15: a passthrough kind whose table check passes opens a connector,
\* executes the statement once, commits, closes the connector, in that
\* order, and returns no result; a commit is always preceded by a
\* successful execute of the same call, and an execute that raises is
\* followed by no commit.
C15_PassthroughOrder ==
    /\ committed <= 1
    /\ committed = 1 =>
          /\ branch = "passthrough"
          /\ executed = <<sql_query.chars>>
          /\ connsOpened = 1
          /\ raisedAt # "execute"
    /\ raisedAt = "execute" => committed = 0 /\ pc \in {"tunnel_exit", "done"}
    /\ branch = "passthrough" =>
          /\ Len(executed) <= 1
          /\ pc = "execute" =>
                conn = "open" /\ connsOpened = 1 /\ executed = <<>> /\ committed = 0
          /\ pc = "commit" =>
                /\ conn = "open"
                /\ executed = <<sql_query.chars>>
                /\ committed = 0
                /\ error = "NoError"
          /\ pc = "close" =>
                conn = "open" /\ executed = <<sql_query.chars>> /\ committed = 1
          /\ connsClosed = 1 => committed = 1 /\ conn = "closed"
          /\ connsOpened = 1 => TableInQuery(table, sql_query.chars)
          /\ (pc = "done" /\ error = "NoError") =>
                /\ result = None
                /\ executed = <<sql_query.chars>>
                /\ committed = 1
                /\ connsOpened = 1
                /\ connsClosed = 1
                /\ conn = "closed"

\* C15 witness: a passthrough statement has been executed, committed and
\* its connector closed
C15_Witness ==
    /\ pc = "done"
    /\ branch = "passthrough"
    /\ error = "NoError"
    /\ executed = <<sql_query.chars>>
    /\ committed = 1
    /\ conn = "closed"
    /\ result = None

\* a passthrough statement whose execute raised has ended with no commit
C15_ExecuteRaised ==
    /\ pc = "done"
    /\ branch = "passthrough"
    /\ raisedAt = "execute"
    /\ committed = 0

\* the call gave a string payload, no query_type and no dataset
InferredFromText ==
    /\ args.query_type = EmptyStr
    /\ IsStr(args.sql_query)
    /\ ~IsDataFrame(args.data)

\* C16: for a string payload with an empty query_type and no dataset the
\* assigned kind is one of UNLOAD, COPY, UPDATE and SELECT, never DELETE,
\* CREATE, GRANT or INSERT; a text with none of the three keywords, such as
\* "DELETE FROM ORDERS", is a SELECT: it goes through the read path only
\* and nothing is committed.
C16_InferredKinds ==
    (InferredFromText /\ Classified) =>
        /\ sql_type \in {UNLOAD, COPY, UPDATE, SELECT}
        /\ (/\ ~HasKeyword(args.sql_query.chars, KW_UNLOAD)
            /\ ~HasKeyword(args.sql_query.chars, KW_COPY)
            /\ ~HasKeyword(args.sql_query.chars, KW_UPDATE)) =>
              /\ sql_type = SELECT
              /\ branch \in {"none", "select"}
              /\ committed = 0
              /\ inserted = None
              /\ pc \notin {"execute", "commit", "insert_data"}

\* C16 witness: "DELETE FROM ORDERS" without query_type has been run through
\* the read path and nothing was committed
C16_Witness ==
    /\ pc = "done"
    /\ InferredFromText
    /\ args.sql_query.chars = <<"D", "E", "L", "E", "T", "E", " ", "F", "R", "O", "M", " ",
                                "O", "R", "D", "E", "R", "S">>
    /\ sql_type = SELECT
    /\ branch = "select"
    /\ executed = <<args.sql_query.chars>>
    /\ committed = 0
    /\ result.kind = "ResultOf"

\* C17: a Select call with no explicit table whose SQL text (upper-cased,
\* newlines replaced by spaces) contains no 'FROM ' never sends the query
\* to the backend nor looks it up in the cache, and, once in the with
\* block, fails at the table extraction.
C17_SelectWithoutFromFails ==
    ( /\ Classified
      /\ DispatchBranch(sql_type) = "select"
      /\ args.table = EmptyStr
      /\ IsStr(sql_query)
      /\ ~HasFrom(sql_query.chars) )
    => /\ executed = <<>>
       /\ cacheLookups = 0
       /\ (pc = "done" /\ tunnelOpens = 1) =>
             (error = "IndexError" /\ raisedAt = "table")

====
